---------------------------- MODULE Spec2Model ----------------------------
(***************************************************************************)
(* PAMS alert decision pipeline (backend/ml/decision_engine.py and the     *)
(* RiskScoreCalculator of backend/ml/classification.py).                   *)
(*                                                                         *)
(* Units.  Probabilities (confidence, impact_score, likelihood, severity   *)
(* weights) are integers in hundredths: 0.89 is 89.  The formula weights   *)
(* 0.3 / 0.25 / 0.2 are 30 / 25 / 20, so the weighted sum is in 1/10000.   *)
(* Time is in whole hours; time_sensitivity is kept as a numerator over    *)
(* DecayHours (168), so the unrounded composite score is the rational      *)
(* raw / ScoreDen.  The reported composite_score is in thousandths         *)
(* (round(x, 3)), the reported time_remaining_hours in hundredths of an    *)
(* hour (round(x, 2)).                                                     *)
(* A similarity is kept in 240ths together with the side its binary64     *)
(* rounding falls to (see the AlertDeduplicator section).                   *)
(***************************************************************************)
EXTENDS Integers, Sequences, FiniteSets, TLC

VARIABLES clock, result, primary, merged, absorbed, dedup, frame

vars == <<clock, result, primary, merged, absorbed, dedup, frame>>

-----------------------------------------------------------------------------
(* Bounds of the model *)

\* last hour of the modelled time line
MaxClock == 169
\* the clock is sampled within Halo hours of every boundary of the code
Halo == 1
\* hours the clock may advance between two steps of one process_alert call
MaxDrift == 1
\* latest creation hour of an input alert (the clock starts at 0, so an
\* alert may carry a creation time ahead of the clock)
MaxCreated == 1

-----------------------------------------------------------------------------
(* Values a dict entry can hold besides a well-formed one *)

\* the key is not in the dict: dict.get returns its default
KeyAbsent == -9001
\* the key holds None
NoneValue == -9002
\* the key holds text that is no number / no ISO timestamp
BadText == -9003

IsNumber(x) == x \notin {KeyAbsent, NoneValue, BadText}

\* severity and priority are strings; these two stand for a missing key and
\* for None
AbsentKey == "<absent>"
NoneKey == "<none>"

Max(a, b) == IF a >= b THEN a ELSE b

Abs(x) == IF x < 0 THEN -x ELSE x

\* round(): n / d (d > 0) to the nearest integer.  The code rounds binary
\* floating point, where a value whose decimal expansion is an exact tie
\* lies a rounding error to one side of it: round(0.8905, 3) is 0.891 or
\* 0.89 depending on how the sum was formed.  half is the side the tie
\* falls to.
HalfWays == {"down", "up"}

Round(n, d, half) ==
    LET q == n \div d
        r == n % d
    IN  IF 2 * r < d THEN q
        ELSE IF 2 * r > d THEN q + 1
        ELSE IF half = "up" THEN q + 1 ELSE q

-----------------------------------------------------------------------------
(* RiskScoreCalculator.calculate_composite_risk *)

WeightSeverity == 30
WeightLikelihood == 25
WeightImpact == 25
WeightConfidence == 20

\* one week: the decay horizon of time_sensitivity
DecayHours == 168

\* denominator of the unrounded score: 10000 (weights x hundredths) x 168
ScoreDen == 10000 * DecayHours

\* the weights of high and low exchanged
severity_weights_Exchanged(severity) ==
    CASE severity = "critical" -> 100
      [] severity = "high" -> 25
      [] severity = "medium" -> 50
      [] severity = "low" -> 75
      [] OTHER -> 50

\* an unrecognized severity weighted like low
severity_weights_UnknownLow(severity) ==
    CASE severity = "critical" -> 100
      [] severity = "high" -> 75
      [] severity = "medium" -> 50
      [] severity = "low" -> 25
      [] OTHER -> 25

\* severity_weights.get(severity.lower(), 0.5)
severity_weights(severity) ==
    CASE severity = "critical" -> 100
      [] severity = "high" -> 75
      [] severity = "medium" -> 50
      [] severity = "low" -> 25
      [] OTHER -> 50

\* the priority thresholds, applied to the unrounded score raw / ScoreDen
PriorityOf(raw) ==
    IF 10 * raw >= 8 * ScoreDen THEN "p1"
    ELSE IF 10 * raw >= 6 * ScoreDen THEN "p2"
    ELSE IF 10 * raw >= 4 * ScoreDen THEN "p3"
    ELSE "p4"

\* time_sensitivity arrives as ts168 / 168
calculate_composite_risk(severity, likelihood, impact, confidence, ts168, half) ==
    LET severity_score == severity_weights(severity)
        raw == (severity_score * WeightSeverity
                + likelihood * WeightLikelihood
                + impact * WeightImpact
                + confidence * WeightConfidence) * ts168
    IN  [composite_score |-> Round(raw, ScoreDen \div 1000, half),
         priority |-> PriorityOf(raw),
         time_sensitivity |-> ts168,
         error |-> FALSE]

-----------------------------------------------------------------------------
(* AlertScorer.calculate_alert_score *)

\* alert.get(key, default)
Get(v, default) == IF v = KeyAbsent THEN default ELSE v
GetStr(v, default) == IF v = AbsentKey THEN default ELSE v

\* the statements of the try block that raise: None.lower(), fromisoformat
\* of malformed text, utcnow() - None, and None or text times a float
ScoreRaises(alert) ==
    \/ alert.severity = NoneKey
    \/ alert.created_at \in {NoneValue, BadText}
    \/ alert.likelihood \in {NoneValue, BadText}
    \/ alert.impact_score \in {NoneValue, BadText}
    \/ alert.confidence \in {NoneValue, BadText}

\* the except branch
ScoreErrorResult ==
    [composite_score |-> 500, priority |-> "p3", time_sensitivity |-> 0,
     error |-> TRUE]

\* the decay without its floor of 0.5
TimeSensitivity_NoFloor(age_hours) == DecayHours - age_hours

\* max(0.5, 1.0 - age_hours / 168), as a numerator over 168
TimeSensitivity(age_hours) == Max(DecayHours \div 2, DecayHours - age_hours)

calculate_alert_score(alert, now, half) ==
    IF ScoreRaises(alert) THEN ScoreErrorResult
    ELSE
        LET severity == GetStr(alert.severity, "low")
            confidence == Get(alert.confidence, 50)
            impact_score == Get(alert.impact_score, 50)
            likelihood == Get(alert.likelihood, 50)
            created_at == Get(alert.created_at, now)
            age_hours == now - created_at
        IN  calculate_composite_risk(severity, likelihood, impact_score,
                                     confidence, TimeSensitivity(age_hours),
                                     half)

-----------------------------------------------------------------------------
(* SLAManager *)

\* p1 given the target of p2
SLA_TARGETS_P1Day(priority) ==
    CASE priority = "p1" -> 24
      [] priority = "p2" -> 24
      [] priority = "p3" -> 72
      [] priority = "p4" -> 168
      [] OTHER -> 72

\* SLA_TARGETS.get(priority, 72)
SLA_TARGETS(priority) ==
    CASE priority = "p1" -> 4
      [] priority = "p2" -> 24
      [] priority = "p3" -> 72
      [] priority = "p4" -> 168
      [] OTHER -> 72

\* hours of time remaining under which the status is critical / warning
CriticalBelow == 2
WarningBelow == 12

\* fromisoformat of malformed text, and None + timedelta, raise
DeadlineRaises(alert) == alert.created_at \in {NoneValue, BadText}

\* defined when ~DeadlineRaises(alert)
calculate_sla_deadline(alert, now) ==
    LET priority == GetStr(alert.priority, "p3")
        created_at == Get(alert.created_at, now)
    IN  created_at + SLA_TARGETS(priority)

\* breached tested with <= 0
SlaStatusOf_InclusiveBreach(time_remaining) ==
    IF time_remaining <= 0 THEN "breached"
    ELSE IF time_remaining < 2 THEN "critical"
    ELSE IF time_remaining < 12 THEN "warning"
    ELSE "ok"

\* critical tested with <= 2
SlaStatusOf_InclusiveCritical(time_remaining) ==
    IF time_remaining < 0 THEN "breached"
    ELSE IF time_remaining <= 2 THEN "critical"
    ELSE IF time_remaining < 12 THEN "warning"
    ELSE "ok"

\* the if / elif chain over time_remaining (hours)
SlaStatusOf(time_remaining) ==
    IF time_remaining < 0 THEN "breached"
    ELSE IF time_remaining < CriticalBelow THEN "critical"
    ELSE IF time_remaining < WarningBelow THEN "warning"
    ELSE "ok"

BreachRiskOf(time_remaining) ==
    IF time_remaining < 0 THEN "high"
    ELSE IF time_remaining < CriticalBelow THEN "high"
    ELSE IF time_remaining < WarningBelow THEN "medium"
    ELSE "low"

\* defined when ~DeadlineRaises(alert); the two clock reads of one call
\* (the default creation time and now) are taken at the same hour
check_sla_breach(alert, now) ==
    LET deadline == calculate_sla_deadline(alert, now)
        time_remaining == deadline - now
    IN  [sla_status |-> SlaStatusOf(time_remaining),
         sla_deadline |-> deadline,
         time_remaining_hours |-> Round(100 * time_remaining, 1, "up"),
         breach_risk |-> BreachRiskOf(time_remaining)]

\* the p3 branch left out
determine_escalation_NoP3(alert, now) ==
    LET sla_check == check_sla_breach(alert, now)
        priority == GetStr(alert.priority, "p3")
    IN  IF priority = "p1" THEN
            IF sla_check.sla_status = "breached" THEN "executive"
            ELSE IF sla_check.sla_status = "critical" THEN "director"
            ELSE "manager"
        ELSE IF priority = "p2" THEN
            IF sla_check.breach_risk = "high" THEN "director"
            ELSE IF sla_check.breach_risk = "medium" THEN "manager"
            ELSE "none"
        ELSE "none"

\* p1 escalated only once its SLA status is breached or critical
determine_escalation_P1Quiet(alert, now) ==
    LET sla_check == check_sla_breach(alert, now)
        priority == GetStr(alert.priority, "p3")
    IN  IF priority = "p1" THEN
            IF sla_check.sla_status = "breached" THEN "executive"
            ELSE IF sla_check.sla_status = "critical" THEN "director"
            ELSE "none"
        ELSE IF priority = "p2" THEN
            IF sla_check.breach_risk = "high" THEN "director"
            ELSE IF sla_check.breach_risk = "medium" THEN "manager"
            ELSE "none"
        ELSE IF priority = "p3" THEN
            IF sla_check.sla_status = "breached" THEN "manager"
            ELSE "none"
        ELSE "none"

\* p1 sent to the director once breached and to the executive while critical
determine_escalation_P1Swapped(alert, now) ==
    LET sla_check == check_sla_breach(alert, now)
        priority == GetStr(alert.priority, "p3")
    IN  IF priority = "p1" THEN
            IF sla_check.sla_status = "breached" THEN "director"
            ELSE IF sla_check.sla_status = "critical" THEN "executive"
            ELSE "manager"
        ELSE IF priority = "p2" THEN
            IF sla_check.breach_risk = "high" THEN "director"
            ELSE IF sla_check.breach_risk = "medium" THEN "manager"
            ELSE "none"
        ELSE IF priority = "p3" THEN
            IF sla_check.sla_status = "breached" THEN "manager"
            ELSE "none"
        ELSE "none"

\* defined when ~DeadlineRaises(alert); "none" is Python's None
determine_escalation(alert, now) ==
    LET sla_check == check_sla_breach(alert, now)
        priority == GetStr(alert.priority, "p3")
    IN  IF priority = "p1" THEN
            IF sla_check.sla_status = "breached" THEN "executive"
            ELSE IF sla_check.sla_status = "critical" THEN "director"
            ELSE "manager"
        ELSE IF priority = "p2" THEN
            IF sla_check.breach_risk = "high" THEN "director"
            ELSE IF sla_check.breach_risk = "medium" THEN "manager"
            ELSE "none"
        ELSE IF priority = "p3" THEN
            IF sla_check.sla_status = "breached" THEN "manager"
            ELSE "none"
        ELSE "none"

-----------------------------------------------------------------------------
(* AlertEnricher *)

\* Python truthiness of a number or None: None and 0 are false
Truthy(x) == x \notin {KeyAbsent, NoneValue, 0}

\* Python truthiness of a timestamp or None: every datetime is true
TruthyTime(x) == x \notin {KeyAbsent, NoneValue}

\* the product argument when process_alert gets none
NoProduct == [given |-> FALSE, current_stock |-> KeyAbsent,
              reorder_point |-> KeyAbsent]

\* text / (number + 0.01) and number / (text + 0.01) raise
ProductRaises(product) ==
    /\ Truthy(product.current_stock)
    /\ Truthy(product.reorder_point)
    /\ BadText \in {product.current_stock, product.reorder_point}

\* stock_ratio = current_stock / (reorder_point + 0.01), compared with
\* num / den by cross-multiplication (all in hundredths)
RatioBelow(current_stock, reorder_point, num, den) ==
    LET d == 100 * reorder_point + 1
    IN  IF d > 0 THEN den * 100 * current_stock < num * d
        ELSE den * 100 * current_stock > num * d

\* the stock_health enrich_with_product_context sets; "-" when it sets none
enrich_with_product_context(product) ==
    IF Truthy(product.current_stock) /\ Truthy(product.reorder_point)
    THEN IF RatioBelow(product.current_stock, product.reorder_point, 1, 2)
         THEN "critical"
         ELSE IF RatioBelow(product.current_stock, product.reorder_point, 1, 1)
              THEN "warning"
              ELSE "healthy"
    ELSE "-"

\* h.get('status') == 'resolved' and h.get('resolved_at')
IsResolved(h) == h.status = "resolved" /\ TruthyTime(h.resolved_at)

\* the entries of resolved the loop appends a resolution time for
HasBothTimes(h) == IsResolved(h) /\ TruthyTime(h.created_at)

\* fromisoformat of malformed text raises inside the loop
HistoryRaises(history) ==
    \E i \in 1..Len(history) :
        /\ HasBothTimes(history[i])
        /\ BadText \in {history[i].created_at, history[i].resolved_at}

RECURSIVE SumResolution(_, _)
\* sum(resolution_times) over the first n entries of history
SumResolution(history, n) ==
    IF n = 0 THEN 0
    ELSE SumResolution(history, n - 1)
         + (IF HasBothTimes(history[n])
            THEN history[n].resolved_at - history[n].created_at
            ELSE 0)

\* defined when ~HistoryRaises(history).  avg_resolution_hours is the
\* fraction <<sum, count>>, and <<>> when the key is not set.
enrich_with_historical_context(category, history) ==
    LET similar_count ==
            Cardinality({i \in 1..Len(history) :
                            history[i].category = category})
        timed == {i \in 1..Len(history) : HasBothTimes(history[i])}
    IN  [similar_alerts_past_30_days |-> similar_count,
         is_recurring |-> similar_count > 2,
         avg_resolution_hours |->
             IF timed = {} THEN <<>>
             ELSE <<SumResolution(history, Len(history)),
                    Cardinality(timed)>>]

-----------------------------------------------------------------------------
(* DecisionEngine *)

\* the stock recommendation put in front
_generate_recommendations_StockFirst(priority, category, stock_health, is_recurring) ==
    (IF stock_health = "critical"
     THEN <<"Expedite reorder or switch to backup supplier">>
     ELSE <<>>)
    \o (IF priority = "p1"
        THEN <<"Immediate investigation required",
               "Notify relevant stakeholders">>
        ELSE <<>>)
    \o (IF category = "quality"
        THEN <<"Review recent quality inspection reports",
               "Check batch/lot numbers for affected products">>
        ELSE IF category = "supply"
        THEN <<"Contact supplier for status update",
               "Identify alternative suppliers if needed">>
        ELSE IF category = "demand"
        THEN <<"Adjust inventory orders",
               "Review demand forecast models">>
        ELSE <<>>)
    \o (IF is_recurring
        THEN <<"Investigate root cause (recurring issue)">>
        ELSE <<>>)

_generate_recommendations(priority, category, stock_health, is_recurring) ==
    (IF priority = "p1"
     THEN <<"Immediate investigation required",
            "Notify relevant stakeholders">>
     ELSE <<>>)
    \o (IF category = "quality"
        THEN <<"Review recent quality inspection reports",
               "Check batch/lot numbers for affected products">>
        ELSE IF category = "supply"
        THEN <<"Contact supplier for status update",
               "Identify alternative suppliers if needed">>
        ELSE IF category = "demand"
        THEN <<"Adjust inventory orders",
               "Review demand forecast models">>
        ELSE <<>>)
    \o (IF stock_health = "critical"
        THEN <<"Expedite reorder or switch to backup supplier">>
        ELSE <<>>)
    \o (IF is_recurring
        THEN <<"Investigate root cause (recurring issue)">>
        ELSE <<>>)

\* every field an operation can report; an operation fills in its own
BlankResult ==
    [op |-> "none", raised |-> FALSE,
     alert |-> [severity |-> AbsentKey, category |-> AbsentKey,
                confidence |-> KeyAbsent, impact_score |-> KeyAbsent,
                likelihood |-> KeyAbsent, created_at |-> KeyAbsent,
                priority |-> AbsentKey],
     product |-> NoProduct, history |-> <<>>,
     t_score |-> KeyAbsent, t_check |-> KeyAbsent, t_esc |-> KeyAbsent,
     composite_score |-> KeyAbsent, priority |-> AbsentKey,
     score_error |-> FALSE, time_sensitivity |-> KeyAbsent,
     category |-> AbsentKey,
     stock_health |-> "-", similar_alerts_past_30_days |-> KeyAbsent,
     is_recurring |-> FALSE, avg_resolution_hours |-> <<>>,
     sla_status |-> "-", sla_deadline |-> KeyAbsent,
     time_remaining_hours |-> KeyAbsent, breach_risk |-> "-",
     escalation_level |-> "-", requires_escalation |-> FALSE,
     recommended_actions |-> <<>>]

\* the exception leaves the caller without a result record
RaisedResult(op, alert, product, history, now) ==
    [BlankResult EXCEPT !.op = op, !.raised = TRUE, !.alert = alert,
                        !.product = product, !.history = history,
                        !.t_score = now]

\* what calculate_alert_score returns for alert at hour now
ScoreResult(alert, now, half) ==
    LET score_result == calculate_alert_score(alert, now, half)
    IN  [BlankResult EXCEPT
            !.op = "score", !.alert = alert, !.t_score = now,
            !.composite_score = score_result.composite_score,
            !.priority = score_result.priority,
            !.score_error = score_result.error,
            !.time_sensitivity = score_result.time_sensitivity,
            !.category = IF score_result.error THEN AbsentKey
                         ELSE GetStr(alert.category, "unknown")]

\* processed after Step 1: alert.copy() updated with the score result
Scored(alert, score_result) ==
    [alert EXCEPT
        !.priority = score_result.priority,
        !.category = IF score_result.error THEN alert.category
                     ELSE GetStr(alert.category, "unknown")]

ProcessRaises(alert, product, history) ==
    \/ product.given /\ ProductRaises(product)
    \/ history # <<>> /\ HistoryRaises(history)
    \/ DeadlineRaises(alert)

\* process_alert; its clock reads are t_score (Step 1), t_check (Step 3)
\* and t_esc (Step 4)
process_alert(alert, product, history, t_score, t_check, t_esc, half) ==
    IF ProcessRaises(alert, product, history)
    THEN RaisedResult("process", alert, product, history, t_score)
    ELSE
        LET score_result == calculate_alert_score(alert, t_score, half)
            processed == Scored(alert, score_result)
            stock_health == IF product.given
                            THEN enrich_with_product_context(product)
                            ELSE "-"
            hist == IF history # <<>>
                    THEN enrich_with_historical_context(processed.category,
                                                        history)
                    ELSE [similar_alerts_past_30_days |-> KeyAbsent,
                          is_recurring |-> FALSE,
                          avg_resolution_hours |-> <<>>]
            sla_check == check_sla_breach(processed, t_check)
            escalation_level == determine_escalation(processed, t_esc)
        IN  [BlankResult EXCEPT
                !.op = "process", !.alert = alert, !.product = product,
                !.history = history,
                !.t_score = t_score, !.t_check = t_check, !.t_esc = t_esc,
                !.composite_score = score_result.composite_score,
                !.priority = score_result.priority,
                !.score_error = score_result.error,
                !.time_sensitivity = score_result.time_sensitivity,
                !.category = processed.category,
                !.stock_health = stock_health,
                !.similar_alerts_past_30_days =
                    hist.similar_alerts_past_30_days,
                !.is_recurring = hist.is_recurring,
                !.avg_resolution_hours = hist.avg_resolution_hours,
                !.sla_status = sla_check.sla_status,
                !.sla_deadline = sla_check.sla_deadline,
                !.time_remaining_hours = sla_check.time_remaining_hours,
                !.breach_risk = sla_check.breach_risk,
                !.escalation_level = escalation_level,
                !.requires_escalation = escalation_level # "none",
                !.recommended_actions =
                    _generate_recommendations(score_result.priority,
                                              processed.category,
                                              stock_health,
                                              hist.is_recurring)]

-----------------------------------------------------------------------------
(* AlertDeduplicator.merge_alerts *)

\* severity_order.get(severity, 0)
severity_order(severity) ==
    CASE severity = "critical" -> 4
      [] severity = "high" -> 3
      [] severity = "medium" -> 2
      [] severity = "low" -> 1
      [] OTHER -> 0

\* the confidences averaged
merge_alerts_Averages(prim, duplicate) ==
    [id |-> prim.id,
     severity |->
        IF severity_order(GetStr(duplicate.severity, "low"))
              > severity_order(GetStr(prim.severity, "low"))
        THEN duplicate.severity
        ELSE prim.severity,
     confidence |->
        (Get(duplicate.confidence, 0) + Get(prim.confidence, 0)) \div 2,
     description |->
        IF duplicate.description # <<>>
        THEN prim.description \o duplicate.description
        ELSE prim.description,
     merged_alert_ids |-> Append(prim.merged_alert_ids, duplicate.id)]

\* the duplicate's severity and confidence always taken
merge_alerts_LastWins(prim, duplicate) ==
    [id |-> prim.id,
     severity |-> duplicate.severity,
     confidence |-> duplicate.confidence,
     description |->
        IF duplicate.description # <<>>
        THEN prim.description \o duplicate.description
        ELSE prim.description,
     merged_alert_ids |-> Append(prim.merged_alert_ids, duplicate.id)]

\* the list of absorbed ids started anew at every merge
merge_alerts_ForgetsIds(prim, duplicate) ==
    [id |-> prim.id,
     severity |->
        IF severity_order(GetStr(duplicate.severity, "low"))
              > severity_order(GetStr(prim.severity, "low"))
        THEN duplicate.severity
        ELSE prim.severity,
     confidence |->
        IF Get(duplicate.confidence, 0) > Get(prim.confidence, 0)
        THEN duplicate.confidence
        ELSE prim.confidence,
     description |->
        IF duplicate.description # <<>>
        THEN prim.description \o duplicate.description
        ELSE prim.description,
     merged_alert_ids |-> <<duplicate.id>>]

\* A description is the sequence of its parts: <<>> is the empty string,
\* and appending "\n[Merged] " + text adds the part text.
merge_alerts(prim, duplicate) ==
    [id |-> prim.id,
     severity |->
        IF severity_order(GetStr(duplicate.severity, "low"))
              > severity_order(GetStr(prim.severity, "low"))
        THEN duplicate.severity
        ELSE prim.severity,
     confidence |->
        IF Get(duplicate.confidence, 0) > Get(prim.confidence, 0)
        THEN duplicate.confidence
        ELSE prim.confidence,
     description |->
        IF duplicate.description # <<>>
        THEN prim.description \o duplicate.description
        ELSE prim.description,
     merged_alert_ids |-> Append(prim.merged_alert_ids, duplicate.id)]

-----------------------------------------------------------------------------
(* AlertDeduplicator: fingerprint, similarity, find_duplicates *)

\* A similarity is a binary64 number.  It is kept as n, the exact sum in
\* 240ths (0.4 = 96, 0.3 = 72, 0.2 = 48, 0.1 * (1 - h / 24) = 24 - h), and
\* ulp, the side on which the double the additions produce lies of the double
\* nearest n / 240: -1 below it, 0 that very double, 1 above it.

\* score += 0.4, score += 0.3, score += 0.2
ProductMatch == 96
CategoryMatch == 72
SeverityMatch == 48

\* hours from which the time proximity adds nothing
ProximityHours == 24

\* similarity_threshold: float = 0.8
DefaultThreshold == 192

\* f"{product_id}:{category}:{severity}" under md5, which is taken to give
\* different digests to the different strings of the model; every alert of
\* the model carries the three keys
generate_alert_fingerprint(alert) ==
    <<alert.product_id, ":", alert.category, ":", alert.severity>>

\* the rounding of 0.0 + 0.4 + 0.3 + 0.2 + 0.1 * (1 - h / 24) in binary64,
\* the additions taken in the order of the statements and only for the
\* entries that match: entry h + 1 for a gap of h hours under 24, entry 25
\* for a gap that adds nothing
Binary64Sums(product, category, severity) ==
    CASE product /\ category /\ severity ->
             <<-1, -1, -1, -1,  0, -1, -1, -1, -1,
               -1, -1, -1,  0,  0, -1, -1, -1, -1,
               -1,  0, -1, -1, -1, -1, -1>>
      [] product /\ category /\ ~severity ->
             <<-1,  0,  0,  0,  0, -1, -1, -1, -1,
                0,  0,  0,  0,  0, -1, -1,  0,  0,
                0,  0, -1, -1, -1, -1,  0>>
      [] product /\ ~category /\ severity ->
             << 1,  1,  1,  1,  1,  0,  0,  1,  1,
                1,  1,  1,  1,  1,  0,  1,  1,  1,
                1,  1,  0,  0,  1,  1,  1>>
      [] product /\ ~category /\ ~severity ->
             << 0,  0,  1,  1,  1,  0,  1,  0,  0,
                0,  1,  1,  0,  0,  1,  0,  0,  1,
                1,  0,  0,  1,  1,  0,  0>>
      [] ~product /\ category /\ severity ->
             << 0,  0,  0,  0,  0, -1,  0,  0,  0,
                0,  0,  0,  0,  1,  0,  0,  0,  0,
                0,  0, -1,  0,  0,  0,  0>>
      [] ~product /\ category /\ ~severity ->
             << 0,  0,  0,  0, -1,  0,  0,  0,  1,
                0,  0,  0,  0,  0,  0,  0,  0,  0,
                0, -1,  0,  0,  0,  0,  0>>
      [] ~product /\ ~category /\ severity ->
             << 1,  0,  0,  1,  0,  0,  0,  1,  1,
                0,  0,  1,  0,  1,  0,  1,  0,  1,
                0,  1,  0,  1,  0,  0,  0>>
      [] ~product /\ ~category /\ ~severity ->
             << 0,  0,  1,  1,  1,  0,  1,  0,  1,
                0, -1,  1,  0,  1,  0,  1,  1, -1,
                0,  1, -1,  0,  1, -1,  0>>

\* time_diff_hours counted only when the first alert is the later one
time_diff_hours_OneSided(created1, created2) ==
    IF created1 >= created2 THEN created1 - created2 ELSE ProximityHours

\* abs((created1 - created2).total_seconds() / 3600)
time_diff_hours(created1, created2) == Abs(created1 - created2)

\* the severity match left out of the sum
calculate_similarity_NoSeverity(alert1, alert2, now) ==
    LET product == alert1.product_id = alert2.product_id
        category == alert1.category = alert2.category
        created1 == Get(alert1.created_at, now)
        created2 == Get(alert2.created_at, now)
        gap == time_diff_hours(created1, created2)
    IN  [n |-> (IF product THEN ProductMatch ELSE 0)
               + (IF category THEN CategoryMatch ELSE 0)
               + (IF gap < ProximityHours THEN ProximityHours - gap ELSE 0),
         ulp |-> 0]

\* the category score added whether or not the categories match
calculate_similarity_AnyCategory(alert1, alert2, now) ==
    LET product == alert1.product_id = alert2.product_id
        severity == alert1.severity = alert2.severity
        gap == time_diff_hours(Get(alert1.created_at, now),
                               Get(alert2.created_at, now))
    IN  [n |-> (IF product THEN ProductMatch ELSE 0)
               + CategoryMatch
               + (IF severity THEN SeverityMatch ELSE 0)
               + (IF gap < ProximityHours THEN ProximityHours - gap ELSE 0),
         ulp |-> 0]

\* both clock reads of one call (the defaults of created_at) are taken at
\* the same hour
calculate_similarity(alert1, alert2, now) ==
    LET product == alert1.product_id = alert2.product_id
        category == alert1.category = alert2.category
        severity == alert1.severity = alert2.severity
        created1 == Get(alert1.created_at, now)
        created2 == Get(alert2.created_at, now)
        gap == time_diff_hours(created1, created2)
    IN  [n |-> (IF product THEN ProductMatch ELSE 0)
               + (IF category THEN CategoryMatch ELSE 0)
               + (IF severity THEN SeverityMatch ELSE 0)
               + (IF gap < ProximityHours THEN ProximityHours - gap ELSE 0),
         ulp |-> Binary64Sums(product, category, severity)
                    [IF gap < ProximityHours THEN gap + 1
                     ELSE ProximityHours + 1]]

\* the threshold has to be exceeded
Reaches_Strict(similarity, threshold) == similarity.n > threshold

\* similarity >= similarity_threshold, the threshold being the double
\* nearest threshold / 240
Reaches(similarity, threshold) ==
    \/ similarity.n > threshold
    \/ similarity.n = threshold /\ similarity.ulp >= 0

\* for j in range(i + 1, len(alerts)), from j on; alerts[i] of the code is
\* alerts[i + 1] here
RECURSIVE InnerLoop(_, _, _, _, _)

InnerLoop(alerts, threshold, now, i, j) ==
    IF j >= Len(alerts) THEN <<>>
    ELSE LET similarity ==
                 calculate_similarity(alerts[i + 1], alerts[j + 1], now)
         IN  (IF Reaches(similarity, threshold)
              THEN << <<i, j, similarity>> >>
              ELSE <<>>)
             \o InnerLoop(alerts, threshold, now, i, j + 1)

\* for i in range(len(alerts)), from i on
RECURSIVE OuterLoop(_, _, _, _)

OuterLoop(alerts, threshold, now, i) ==
    IF i >= Len(alerts) THEN <<>>
    ELSE InnerLoop(alerts, threshold, now, i, i + 1)
         \o OuterLoop(alerts, threshold, now, i + 1)

\* the list duplicates; the clock does not move during the call
find_duplicates(alerts, similarity_threshold, now) ==
    OuterLoop(alerts, similarity_threshold, now, 0)

-----------------------------------------------------------------------------
(* Inputs *)

Severities == {"critical", "high", "medium", "low"}
Priorities == {"p1", "p2", "p3", "p4"}

\* the hours at which a threshold of the code is crossed by an alert created
\* at hour 0: the SLA targets, the targets less the critical and warning
\* margins, and the floor of time_sensitivity
Boundaries ==
    {0, DecayHours \div 2}
    \cup {SLA_TARGETS(p) - m : p \in Priorities,
                               m \in {0, CriticalBelow, WarningBelow}}

\* the hours the clock is sampled at
Instants ==
    {t \in 0..MaxClock : \E b \in Boundaries : Abs(t - b) <= Halo}

LikelihoodInputs == {0, 80, 100}
ImpactInputs == {25, 85, 100}
ConfidenceInputs == {89, 96, 100}

\* well-formed alerts, as the alert route builds them
GridAlerts ==
    [severity : Severities \cup {"bogus"}, category : {"quality"},
     confidence : ConfidenceInputs, impact_score : ImpactInputs,
     likelihood : LikelihoodInputs, created_at : 0..MaxCreated,
     priority : {AbsentKey}]

\* the end-to-end example: critical, quality, 0.89 / 0.85 / 0.8
ExampleAlert ==
    [severity |-> "critical", category |-> "quality", confidence |-> 89,
     impact_score |-> 85, likelihood |-> 80, created_at |-> 0,
     priority |-> AbsentKey]

\* the example with one entry missing, None or malformed
OddAlerts ==
    {[ExampleAlert EXCEPT !.severity = v] : v \in {AbsentKey, NoneKey}}
    \cup {[ExampleAlert EXCEPT !.category = v] : v \in {AbsentKey, "bogus"}}
    \cup {[ExampleAlert EXCEPT !.confidence = v] :
            v \in {KeyAbsent, NoneValue, BadText}}
    \cup {[ExampleAlert EXCEPT !.impact_score = v] :
            v \in {KeyAbsent, NoneValue, BadText}}
    \cup {[ExampleAlert EXCEPT !.likelihood = v] :
            v \in {KeyAbsent, NoneValue, BadText}}
    \cup {[ExampleAlert EXCEPT !.created_at = v] :
            v \in {KeyAbsent, NoneValue, BadText}}

\* probabilities outside [0, 1]
OutOfRange == {-50, 150}

\* the example with one probability below 0 or above 1
UnclampedAlerts ==
    {[ExampleAlert EXCEPT !.confidence = v] : v \in OutOfRange}
    \cup {[ExampleAlert EXCEPT !.impact_score = v] : v \in OutOfRange}
    \cup {[ExampleAlert EXCEPT !.likelihood = v] : v \in OutOfRange}

\* the example in the other categories that have recommendations
CategoryAlerts ==
    {[ExampleAlert EXCEPT !.category = c] : c \in {"supply", "demand"}}

\* a low alert whose three probabilities are all below 0: its weighted sum
\* is negative
NegativeAlerts ==
    {[ExampleAlert EXCEPT !.severity = "low", !.confidence = -50,
                          !.impact_score = -50, !.likelihood = -50]}

AlertInputs ==
    GridAlerts \cup OddAlerts \cup UnclampedAlerts \cup CategoryAlerts
    \cup NegativeAlerts

\* scored alerts handed to the SLA manager on its own
ScoredInputs ==
    {[ExampleAlert EXCEPT !.priority = p, !.created_at = c] :
        p \in Priorities \cup {"p9", AbsentKey},
        c \in (0..MaxCreated) \cup {KeyAbsent, NoneValue, BadText}}

LowStockProduct == [given |-> TRUE, current_stock |-> 2, reorder_point |-> 10]

RecurringHistory ==
    <<[category |-> "quality", status |-> "resolved", created_at |-> 0,
       resolved_at |-> 6],
      [category |-> "quality", status |-> "open", created_at |-> 0,
       resolved_at |-> NoneValue],
      [category |-> "quality", status |-> "resolved", created_at |-> 0,
       resolved_at |-> 2]>>

\* the (product, history) pairs process_alert is called with
ContextInputs == {<<NoProduct, <<>> >>, <<LowStockProduct, RecurringHistory>>}

NoMergeAlert ==
    [id |-> 0, severity |-> AbsentKey, confidence |-> KeyAbsent,
     description |-> <<>>, merged_alert_ids |-> <<>>]

\* most duplicates merged into one primary
MaxMerges == 2

MergeConfidences == {30, 89}

\* primaries: alerts of the alerts table, not yet merged or with alert 7
\* merged into them earlier
PrimaryInputs ==
    [id : {0}, severity : Severities \cup {"bogus"},
     confidence : MergeConfidences, description : {<<"primary">>},
     merged_alert_ids : {<<>>, <<7>>}]

\* the k-th duplicate merged has id k
DuplicateInputs(k) ==
    [id : {k}, severity : Severities \cup {"bogus"},
     confidence : MergeConfidences, description : {<<>>, <<"duplicate">>},
     merged_alert_ids : {<<>>}]

\* the alert the batches are built around: product 1, quality, high,
\* created at hour 0
BaseAlert ==
    [product_id |-> 1, category |-> "quality", severity |-> "high",
     created_at |-> 0]

\* creation hours half a day, a day and more than a day after hour 0
DedupCreated == {0, 12, 24, 30}

\* the base alert, the base alert with one entry changed or without its
\* creation time, and an alert different in every entry
DedupAlerts ==
    {[BaseAlert EXCEPT !.created_at = c] : c \in DedupCreated \cup {KeyAbsent}}
    \cup {[BaseAlert EXCEPT !.product_id = 2],
          [BaseAlert EXCEPT !.category = "supply"],
          [BaseAlert EXCEPT !.severity = "low"],
          [product_id |-> 2, category |-> "supply", severity |-> "low",
           created_at |-> 30]}

\* most alerts in one batch
MaxBatch == 3

\* similarity_threshold: the default 0.8, and 0.9, 0.95 and 1.0
Thresholds == {DefaultThreshold, 216, 228, 240}

\* no batch collected, find_duplicates not called
NoDedup ==
    [alerts |-> <<>>, called |-> FALSE, similarity_threshold |-> 0,
     duplicates |-> <<>>]

\* no call made on records held by reference
NoFrame == [op |-> "none", passed |-> <<>>, heap |-> <<>>, returned |-> 0]

\* products handed to enrich_with_product_context: stock and reorder point
\* missing, None, text, zero or positive
StockInputs == {KeyAbsent, NoneValue, BadText, 0, 2, 5, 10, 20}
ReorderInputs == {KeyAbsent, NoneValue, BadText, 0, 10}

ProductInputs ==
    [given : {TRUE}, current_stock : StockInputs,
     reorder_point : ReorderInputs]

\* most entries in one history
MaxHistory == 2

\* entries of a history as the alert route builds them from past alerts of
\* the product, of any category
HistoryEntries ==
    [category : {"quality", "supply"}, status : {"resolved", "open"},
     created_at : {0, NoneValue},
     resolved_at : {2, 10, NoneValue, BadText}]

RECURSIVE SeqsUpTo(_, _)
\* the sequences of at most n elements of S
SeqsUpTo(S, n) ==
    IF n = 0 THEN {<<>>}
    ELSE LET shorter == SeqsUpTo(S, n - 1)
         IN  shorter \cup {Append(h, e) : h \in shorter, e \in S}

HistoryInputs == SeqsUpTo(HistoryEntries, MaxHistory)

\* the alerts whose history is looked at: the example and the example
\* without a category
HistoryAlerts == {ExampleAlert, [ExampleAlert EXCEPT !.category = AbsentKey]}

-----------------------------------------------------------------------------
(* The pipeline: scoring, SLA, escalation and process_alert over a clock *)

Init ==
    /\ clock = 0
    /\ result = BlankResult
    /\ primary = NoMergeAlert
    /\ merged = NoMergeAlert
    /\ absorbed = <<>>
    /\ dedup = NoDedup
    /\ frame = NoFrame

\* no call is in progress and the last result has been taken
Idle == result.op = "none"

\* time passes between two calls
Tick ==
    /\ Idle
    /\ \E t \in Instants : t > clock /\ clock' = t
    /\ UNCHANGED <<result, primary, merged, absorbed, dedup, frame>>

Score ==
    /\ Idle
    /\ \E alert \in AlertInputs, half \in HalfWays :
        result' = ScoreResult(alert, clock, half)
    /\ UNCHANGED <<clock, primary, merged, absorbed, dedup, frame>>

CheckSla ==
    /\ Idle
    /\ \E alert \in ScoredInputs :
        result' =
            IF DeadlineRaises(alert)
            THEN RaisedResult("sla", alert, NoProduct, <<>>, clock)
            ELSE LET sla_check == check_sla_breach(alert, clock)
                 IN  [BlankResult EXCEPT
                        !.op = "sla", !.alert = alert, !.t_check = clock,
                        !.sla_status = sla_check.sla_status,
                        !.sla_deadline = sla_check.sla_deadline,
                        !.time_remaining_hours =
                            sla_check.time_remaining_hours,
                        !.breach_risk = sla_check.breach_risk]
    /\ UNCHANGED <<clock, primary, merged, absorbed, dedup, frame>>

Escalate ==
    /\ Idle
    /\ \E alert \in ScoredInputs :
        result' =
            IF DeadlineRaises(alert)
            THEN RaisedResult("escalate", alert, NoProduct, <<>>, clock)
            ELSE [BlankResult EXCEPT
                    !.op = "escalate", !.alert = alert, !.t_esc = clock,
                    !.escalation_level = determine_escalation(alert, clock)]
    /\ UNCHANGED <<clock, primary, merged, absorbed, dedup, frame>>

\* the hours a later clock read of the same call can return
LaterReads(from) == {t \in Instants : from <= t /\ t <= clock + MaxDrift}

Process ==
    /\ Idle
    /\ \E t_check \in LaterReads(clock) :
        \E t_esc \in LaterReads(t_check) :
            \E alert \in AlertInputs, ctx \in ContextInputs,
               half \in HalfWays :
                /\ result' = process_alert(alert, ctx[1], ctx[2],
                                           clock, t_check, t_esc, half)
                /\ clock' = t_esc
    /\ UNCHANGED <<primary, merged, absorbed, dedup, frame>>

\* the caller takes the result (or catches the exception)
Return ==
    /\ ~Idle
    /\ result' = BlankResult
    /\ UNCHANGED <<clock, primary, merged, absorbed, dedup, frame>>

Next == Tick \/ Score \/ CheckSla \/ Escalate \/ Process \/ Return

Spec == Init /\ [][Next]_vars

-----------------------------------------------------------------------------
(* Merging duplicates into a primary, one after another *)

MergeInit ==
    /\ clock = 0
    /\ result = BlankResult
    /\ primary \in PrimaryInputs
    /\ merged = primary
    /\ absorbed = <<>>
    /\ dedup = NoDedup
    /\ frame = NoFrame

\* merged = merge_alerts(merged, duplicate)
Merge ==
    /\ Len(absorbed) < MaxMerges
    /\ \E duplicate \in DuplicateInputs(Len(absorbed) + 1) :
        /\ merged' = merge_alerts(merged, duplicate)
        /\ absorbed' = Append(absorbed, duplicate)
    /\ UNCHANGED <<clock, result, primary, dedup, frame>>

MergeNext == Merge

MergeSpec == MergeInit /\ [][MergeNext]_vars

-----------------------------------------------------------------------------
(* Deduplication of a batch of alerts *)

DedupInit ==
    /\ clock \in DedupCreated
    /\ result = BlankResult
    /\ primary = NoMergeAlert
    /\ merged = NoMergeAlert
    /\ absorbed = <<>>
    /\ dedup = NoDedup
    /\ frame = NoFrame

\* the caller puts one more alert into the batch
Collect ==
    /\ ~dedup.called
    /\ Len(dedup.alerts) < MaxBatch
    /\ \E alert \in DedupAlerts :
        dedup' = [dedup EXCEPT !.alerts = Append(@, alert)]
    /\ UNCHANGED <<clock, result, primary, merged, absorbed, frame>>

\* duplicates = find_duplicates(alerts, similarity_threshold)
FindDuplicates ==
    /\ ~dedup.called
    /\ \E similarity_threshold \in Thresholds :
        dedup' = [dedup EXCEPT
                    !.called = TRUE,
                    !.similarity_threshold = similarity_threshold,
                    !.duplicates = find_duplicates(dedup.alerts,
                                                   similarity_threshold,
                                                   clock)]
    /\ UNCHANGED <<clock, result, primary, merged, absorbed, frame>>

DedupNext == Collect \/ FindDuplicates

DedupSpec == DedupInit /\ [][DedupNext]_vars

-----------------------------------------------------------------------------
(* The enrichers called on their own *)

EnrichProduct ==
    /\ Idle
    /\ \E product \in ProductInputs :
        result' =
            IF ProductRaises(product)
            THEN RaisedResult("enrich_product", ExampleAlert, product, <<>>,
                              clock)
            ELSE [BlankResult EXCEPT
                    !.op = "enrich_product", !.alert = ExampleAlert,
                    !.product = product,
                    !.stock_health = enrich_with_product_context(product)]
    /\ UNCHANGED <<clock, primary, merged, absorbed, dedup, frame>>

EnrichHistory ==
    /\ Idle
    /\ \E alert \in HistoryAlerts, history \in HistoryInputs :
        result' =
            IF HistoryRaises(history)
            THEN RaisedResult("enrich_history", alert, NoProduct, history,
                              clock)
            ELSE LET enriched ==
                         enrich_with_historical_context(alert.category,
                                                        history)
                 IN  [BlankResult EXCEPT
                        !.op = "enrich_history", !.alert = alert,
                        !.history = history,
                        !.similar_alerts_past_30_days =
                            enriched.similar_alerts_past_30_days,
                        !.is_recurring = enriched.is_recurring,
                        !.avg_resolution_hours =
                            enriched.avg_resolution_hours]
    /\ UNCHANGED <<clock, primary, merged, absorbed, dedup, frame>>

EnrichNext == EnrichProduct \/ EnrichHistory \/ Return

EnrichSpec == Init /\ [][EnrichNext]_vars

-----------------------------------------------------------------------------
(* The operations on records held by reference *)

\* A Python dict or list is an object with an identity, and a call is
\* handed references.  The heap is the sequence of the objects alive and a
\* reference is an index into it; a dict is a function over its keys (an
\* entry missing from the model's record of an input is still one of the
\* sentinels), and an entry that holds a list is [ref |-> index].

\* d[key] = value
WithItem(d, key, value) ==
    [k \in DOMAIN d \cup {key} |-> IF k = key THEN value ELSE d[k]]

\* heap[r][key] = value
SetItem(heap, r, key, value) ==
    [heap EXCEPT ![r] = WithItem(heap[r], key, value)]

\* heap[r].update(entries), and a run of heap[r][key] = value statements
Update(heap, r, entries) ==
    [heap EXCEPT ![r] =
        [k \in DOMAIN heap[r] \cup DOMAIN entries |->
            IF k \in DOMAIN entries THEN entries[k] ELSE heap[r][k]]]

\* no copy taken: the new name is bound to the same dict
DictCopy_Alias(heap, r) == [heap |-> heap, ref |-> r]

\* heap[r].copy(): a new dict with the same entries (a shallow copy: an
\* entry holding a list refers to the same list)
DictCopy(heap, r) == [heap |-> Append(heap, heap[r]), ref |-> Len(heap) + 1]

\* d.get('merged_alert_ids', []): the items of the list the entry refers to
ListItems(heap, d) ==
    IF "merged_alert_ids" \in DOMAIN d THEN heap[d.merged_alert_ids.ref]
    ELSE <<>>

\* items + [item]: a new list
ListPlus(heap, items, item) ==
    [heap |-> Append(heap, Append(items, item)), ref |-> Len(heap) + 1]

\* merge_alerts(primary, duplicate), statement by statement
merge_alerts_in(heap, prim, duplicate) ==
    LET copy == DictCopy(heap, prim)
        m == copy.ref
        d == heap[duplicate]
        h1 == IF severity_order(GetStr(d.severity, "low"))
                    > severity_order(GetStr(copy.heap[prim].severity, "low"))
              THEN SetItem(copy.heap, m, "severity", d.severity)
              ELSE copy.heap
        h2 == IF Get(d.confidence, 0) > Get(h1[prim].confidence, 0)
              THEN SetItem(h1, m, "confidence", d.confidence)
              ELSE h1
        h3 == IF d.description # <<>>
              THEN SetItem(h2, m, "description",
                           h2[m].description \o d.description)
              ELSE h2
        plus == ListPlus(h3, ListItems(h3, h3[m]), d.id)
    IN  [heap |-> SetItem(plus.heap, m, "merged_alert_ids",
                          [ref |-> plus.ref]),
         ref |-> m]

\* enrich_with_product_context(alert, product), statement by statement
enrich_with_product_context_in(heap, alert, product) ==
    LET copy == DictCopy(heap, alert)
        enriched == copy.ref
        p == heap[product]
        h1 == Update(copy.heap, enriched,
                     [current_stock |-> p.current_stock,
                      reorder_point |-> p.reorder_point])
        stock_health == enrich_with_product_context(p)
    IN  [heap |-> IF stock_health # "-"
                  THEN SetItem(h1, enriched, "stock_health", stock_health)
                  ELSE h1,
         ref |-> enriched]

\* enrich_with_historical_context(alert, history), statement by statement
enrich_with_historical_context_in(heap, alert, history) ==
    LET copy == DictCopy(heap, alert)
        enriched == copy.ref
        context == enrich_with_historical_context(copy.heap[alert].category,
                                                  heap[history])
        h1 == Update(copy.heap, enriched,
                     [similar_alerts_past_30_days |->
                          context.similar_alerts_past_30_days,
                      is_recurring |-> context.is_recurring])
    IN  [heap |-> IF context.avg_resolution_hours # <<>>
                  THEN SetItem(h1, enriched, "avg_resolution_hours",
                               context.avg_resolution_hours)
                  ELSE h1,
         ref |-> enriched]

\* process_alert(alert, product, history) when no step raises, statement by
\* statement; the values written are those of process_alert above
process_alert_in(heap, alert, product, history, now, half) ==
    LET values == process_alert(heap[alert], heap[product], heap[history],
                                now, now, now, half)
        copy == DictCopy(heap, alert)
        h1 == Update(copy.heap, copy.ref,
                     [composite_score |-> values.composite_score,
                      priority |-> values.priority,
                      category |-> values.category])
        step2 == IF heap[product].given
                 THEN enrich_with_product_context_in(h1, copy.ref, product)
                 ELSE [heap |-> h1, ref |-> copy.ref]
        step3 == IF heap[history] # <<>>
                 THEN enrich_with_historical_context_in(step2.heap,
                                                        step2.ref, history)
                 ELSE step2
        processed == step3.ref
    IN  [heap |-> Update(step3.heap, processed,
                         [sla_deadline |-> values.sla_deadline,
                          sla_status |-> values.sla_status,
                          time_remaining_hours |->
                              values.time_remaining_hours,
                          breach_risk |-> values.breach_risk,
                          escalation_level |-> values.escalation_level,
                          requires_escalation |->
                              values.requires_escalation,
                          recommended_actions |->
                              values.recommended_actions]),
         ref |-> processed]

\* the heap merge_alerts is called on: the primary at 1, the duplicate at 2
\* and, for a primary merged into before, its list of absorbed ids at 3
MergeHeap(prim, duplicate) ==
    LET bare == [k \in DOMAIN prim \ {"merged_alert_ids"} |-> prim[k]]
        dup == [k \in DOMAIN duplicate \ {"merged_alert_ids"} |->
                    duplicate[k]]
    IN  IF prim.merged_alert_ids = <<>> THEN <<bare, dup>>
        ELSE <<WithItem(bare, "merged_alert_ids", [ref |-> 3]), dup,
               prim.merged_alert_ids>>

\* what a call leaves: the heap it was handed, the heap at its return and
\* the reference it returned
Called(op, heap, out) ==
    [op |-> op, passed |-> heap, heap |-> out.heap, returned |-> out.ref]

FrameIdle == frame.op = "none"

FrameProcess ==
    /\ FrameIdle
    /\ \E alert \in AlertInputs, context \in ContextInputs,
          half \in HalfWays :
        LET heap == <<alert, context[1], context[2]>>
        IN  /\ ~ProcessRaises(alert, context[1], context[2])
            /\ frame' = Called("process", heap,
                               process_alert_in(heap, 1, 2, 3, clock, half))
    /\ UNCHANGED <<clock, result, primary, merged, absorbed, dedup>>

FrameMerge ==
    /\ FrameIdle
    /\ \E prim \in PrimaryInputs, duplicate \in DuplicateInputs(1) :
        LET heap == MergeHeap(prim, duplicate)
        IN  frame' = Called("merge", heap, merge_alerts_in(heap, 1, 2))
    /\ UNCHANGED <<clock, result, primary, merged, absorbed, dedup>>

FrameEnrichProduct ==
    /\ FrameIdle
    /\ \E product \in ProductInputs :
        LET heap == <<ExampleAlert, product>>
        IN  /\ ~ProductRaises(product)
            /\ frame' = Called("enrich_product", heap,
                               enrich_with_product_context_in(heap, 1, 2))
    /\ UNCHANGED <<clock, result, primary, merged, absorbed, dedup>>

FrameEnrichHistory ==
    /\ FrameIdle
    /\ \E alert \in HistoryAlerts, history \in HistoryInputs :
        LET heap == <<alert, history>>
        IN  /\ ~HistoryRaises(history)
            /\ frame' = Called("enrich_history", heap,
                               enrich_with_historical_context_in(heap, 1, 2))
    /\ UNCHANGED <<clock, result, primary, merged, absorbed, dedup>>

\* the caller takes the result
FrameReturn ==
    /\ ~FrameIdle
    /\ frame' = NoFrame
    /\ UNCHANGED <<clock, result, primary, merged, absorbed, dedup>>

FrameNext ==
    \/ FrameProcess
    \/ FrameMerge
    \/ FrameEnrichProduct
    \/ FrameEnrichHistory
    \/ FrameReturn

FrameSpec == Init /\ [][FrameNext]_vars

-----------------------------------------------------------------------------
(* Properties *)

\* an operation returned a record (it did not raise)
Returned(op) == result.op = op /\ ~result.raised

\* the transition table of the escalation resolver, row by row
TransitionTable(priority, sla_status, breach_risk) ==
    CASE priority = "p1" /\ sla_status = "breached" -> "executive"
      [] priority = "p1" /\ sla_status = "critical" -> "director"
      [] priority = "p1" /\ sla_status \notin {"breached", "critical"}
            -> "manager"
      [] priority = "p2" /\ breach_risk = "high" -> "director"
      [] priority = "p2" /\ breach_risk = "medium" -> "manager"
      [] priority = "p2" /\ breach_risk \notin {"high", "medium"} -> "none"
      [] priority = "p3" /\ sla_status = "breached" -> "manager"
      [] priority = "p3" /\ sla_status # "breached" -> "none"
      [] OTHER -> "none"

\* C1: for every priority tier carried by the alert (p1..p4 or an
\* unrecognized one) and every SLA state the clock produces, the level
\* determine_escalation returns is the value of the transition table for
\* that tier and the SLA status / breach risk of the alert at that hour.
C1_EscalationFollowsTable ==
    (Returned("escalate") /\ result.alert.priority # AbsentKey) =>
        LET sla == check_sla_breach(result.alert, result.t_esc)
        IN  result.escalation_level =
                TransitionTable(result.alert.priority, sla.sla_status,
                                sla.breach_risk)

\* a p1 alert past its deadline is escalated to the executive level
C1_Witness ==
    /\ Returned("escalate")
    /\ result.alert.priority = "p1"
    /\ result.t_esc - result.alert.created_at > 4
    /\ result.escalation_level = "executive"

\* SLA hours by tier as the SLA tracker's contract gives them
SlaHours(priority) ==
    CASE priority = "p1" -> 4
      [] priority = "p2" -> 24
      [] priority = "p3" -> 72
      [] priority = "p4" -> 168
      [] OTHER -> 72

SlaStatuses == {"breached", "critical", "warning", "ok"}

\* C2: check_sla_breach reports time_remaining = creation + SLA hours of the
\* tier (72 for an unrecognized tier) - now, and classifies it top-down:
\* < 0 breached, else < 2 critical, else < 12 warning, else ok, with
\* breach_risk high / high / medium / low; one status is reported, and a
\* negative remaining time is reported as breached only.
C2_BreachClassification ==
    (Returned("sla") /\ IsNumber(result.alert.created_at)) =>
        LET remaining == (result.alert.created_at
                          + SlaHours(result.alert.priority)) - result.t_check
        IN  /\ result.time_remaining_hours = 100 * remaining
            /\ result.sla_deadline = result.t_check + remaining
            /\ result.sla_status \in SlaStatuses
            /\ (result.sla_status = "breached") = (remaining < 0)
            /\ (result.sla_status = "critical")
                  = (0 <= remaining /\ remaining < 2)
            /\ (result.sla_status = "warning")
                  = (2 <= remaining /\ remaining < 12)
            /\ (result.sla_status = "ok") = (12 <= remaining)
            /\ result.breach_risk =
                  (CASE result.sla_status \in {"breached", "critical"}
                            -> "high"
                     [] result.sla_status = "warning" -> "medium"
                     [] OTHER -> "low")

\* a p2 alert one hour past its 24 hours is reported breached
C2_Witness ==
    /\ Returned("sla")
    /\ result.alert.priority = "p2"
    /\ IsNumber(result.alert.created_at)
    /\ result.t_check = result.alert.created_at + 25
    /\ result.sla_status = "breached"
    /\ result.time_remaining_hours = -100

\* a process_alert run all of whose clock reads fall on the creation hour
\* of a p1 alert
P1AtCreation ==
    /\ Returned("process")
    /\ result.priority = "p1"
    /\ IsNumber(result.alert.created_at)
    /\ result.t_score = result.alert.created_at
    /\ result.t_check = result.alert.created_at
    /\ result.t_esc = result.alert.created_at

\* C3 as stated: a p1 alert processed at its creation instant gets
\* sla_deadline = now + 4 hours, sla_status = ok, escalation_level = manager.
C3_Original ==
    P1AtCreation =>
        /\ result.sla_deadline = result.t_check + 4
        /\ result.sla_status = "ok"
        /\ result.escalation_level = "manager"

\* C3 amended: a p1 alert processed at its creation instant gets
\* sla_deadline = now + 4 hours and escalation_level = manager, and its
\* sla_status is warning (4 hours remain, fewer than 12) with breach_risk
\* medium.
C3_P1AtCreationIsWarning ==
    P1AtCreation =>
        /\ result.sla_deadline = result.t_check + 4
        /\ result.time_remaining_hours = 400
        /\ result.sla_status = "warning"
        /\ result.breach_risk = "medium"
        /\ result.escalation_level = "manager"
        /\ result.requires_escalation

\* the end-to-end example, processed at hour 0
C3_Witness ==
    /\ P1AtCreation
    /\ result.alert = ExampleAlert
    /\ result.composite_score = 891

\* C4: in every result of scoring the reported composite_score and the
\* priority agree: score >= 0.8 iff p1, 0.6 <= score < 0.8 iff p2,
\* 0.4 <= score < 0.6 iff p3, score < 0.4 iff p4.
C4_PriorityAgreesWithScore ==
    (Returned("score") \/ Returned("process")) =>
        /\ (result.priority = "p1") = (result.composite_score >= 800)
        /\ (result.priority = "p2")
              = (600 <= result.composite_score
                 /\ result.composite_score < 800)
        /\ (result.priority = "p3")
              = (400 <= result.composite_score
                 /\ result.composite_score < 600)
        /\ (result.priority = "p4") = (result.composite_score < 400)

\* C5: process_alert never raises: whatever the alert, product and history,
\* it returns a result record.
C5_ProcessNeverRaises == result.op = "process" => ~result.raised

\* a well-formed alert: a severity of the four, probabilities in [0, 1] and
\* a creation time
ValidAlert(alert) ==
    /\ alert.severity \in Severities
    /\ alert.likelihood \in 0..100
    /\ alert.impact_score \in 0..100
    /\ alert.confidence \in 0..100
    /\ IsNumber(alert.created_at)

\* C8: for every severity of the four and every likelihood, impact and
\* confidence in [0, 1], at any creation time and any evaluation time, the
\* composite_score returned by scoring lies in [0, 1].
C8_ScoreWithinUnit ==
    (Returned("score") /\ ValidAlert(result.alert)) =>
        (0 <= result.composite_score /\ result.composite_score <= 1000)

\* low < medium < high < critical
SeverityRank(severity) ==
    CASE severity = "low" -> 1
      [] severity = "medium" -> 2
      [] severity = "high" -> 3
      [] severity = "critical" -> 4
      [] OTHER -> 0

\* p1 is the most urgent tier
Urgency(priority) ==
    CASE priority = "p1" -> 4
      [] priority = "p2" -> 3
      [] priority = "p3" -> 2
      [] priority = "p4" -> 1

\* the probabilities above v that are tried: the next hundredth and the
\* sampled values
Above(v) ==
    {w \in LikelihoodInputs \cup ImpactInputs \cup ConfidenceInputs
           \cup {v + 1} : IsNumber(v) /\ w > v /\ w <= 100}

\* alert with one of severity, likelihood, impact or confidence raised and
\* everything else as it is
RaisedAlerts(alert) ==
    {[alert EXCEPT !.severity = s] :
        s \in {x \in Severities : /\ alert.severity \in Severities
                                  /\ SeverityRank(x)
                                       > SeverityRank(alert.severity)}}
    \cup {[alert EXCEPT !.likelihood = w] : w \in Above(alert.likelihood)}
    \cup {[alert EXCEPT !.impact_score = w] : w \in Above(alert.impact_score)}
    \cup {[alert EXCEPT !.confidence = w] : w \in Above(alert.confidence)}

\* C9: with creation time, evaluation time and all other fields fixed,
\* raising severity, likelihood, impact or confidence never lowers the
\* composite_score scoring returns and never moves the priority to a less
\* urgent tier.
C9_ScoreMonotone ==
    Returned("score") =>
        \A raised \in RaisedAlerts(result.alert), half \in HalfWays :
            LET higher == calculate_alert_score(raised, result.t_score, half)
            IN  /\ higher.composite_score >= result.composite_score
                /\ Urgency(higher.priority) >= Urgency(result.priority)

\* a low-severity alert scored p3 that scores p2 with severity critical
C9_Witness ==
    /\ Returned("score")
    /\ ~result.score_error
    /\ result.alert.severity = "low"
    /\ result.priority = "p3"
    /\ calculate_alert_score([result.alert EXCEPT !.severity = "critical"],
                             result.t_score, "up").priority = "p2"

\* the composite formula, in 1 / ScoreDen: (severity_weight * 0.3
\* + likelihood * 0.25 + impact * 0.25 + confidence * 0.2)
\* * max(0.5, 1 - age_hours / 168)
CompositeFormula(alert, now) ==
    LET weight == CASE alert.severity = "critical" -> 100
                    [] alert.severity = "high" -> 75
                    [] alert.severity = "medium" -> 50
                    [] alert.severity = "low" -> 25
                    [] OTHER -> 50
        age == now - alert.created_at
        decay == IF 2 * (168 - age) < 168 THEN 84 ELSE 168 - age
    IN  (weight * 30 + alert.likelihood * 25 + alert.impact_score * 25
         + alert.confidence * 20) * decay

\* every entry the formula reads is present: a severity string, three
\* numbers and a creation time
FormulaApplies(alert) ==
    /\ alert.severity \notin {AbsentKey, NoneKey}
    /\ IsNumber(alert.likelihood)
    /\ IsNumber(alert.impact_score)
    /\ IsNumber(alert.confidence)
    /\ IsNumber(alert.created_at)

\* C10 as stated: the composite_score returned by scoring equals the
\* composite formula.
C10_Original ==
    (Returned("score") /\ FormulaApplies(result.alert)) =>
        result.composite_score * (ScoreDen \div 1000)
            = CompositeFormula(result.alert, result.t_score)

\* C10 amended: the composite_score returned by scoring is the composite
\* formula rounded to three decimals (it differs from the formula by at most
\* 0.0005); the four weights sum to 1.0.
C10_FormulaRounded ==
    /\ WeightSeverity + WeightLikelihood + WeightImpact + WeightConfidence
          = 100
    /\ (Returned("score") /\ FormulaApplies(result.alert)) =>
          2 * Abs(result.composite_score * (ScoreDen \div 1000)
                  - CompositeFormula(result.alert, result.t_score))
              <= ScoreDen \div 1000

\* an alert of unrecognized severity, older than half a week, whose score
\* is not a whole number of thousandths
C10_Witness ==
    /\ Returned("score")
    /\ FormulaApplies(result.alert)
    /\ result.alert.severity = "bogus"
    /\ result.t_score - result.alert.created_at > 84
    /\ result.composite_score * (ScoreDen \div 1000)
          # CompositeFormula(result.alert, result.t_score)

-----------------------------------------------------------------------------
(* Properties of merging *)

\* the higher-ranked of two severities of the four
HigherSeverity(s1, s2) == IF SeverityRank(s2) > SeverityRank(s1) THEN s2 ELSE s1

\* C6: merging D1 then D2 into P yields the same final severity and the
\* same final confidence as merging D2 then D1 into P.
C6_MergeOrderIndependent ==
    Len(absorbed) = 2 =>
        LET swapped == merge_alerts(merge_alerts(primary, absorbed[2]),
                                    absorbed[1])
        IN  /\ merged.severity = swapped.severity
            /\ merged.confidence = swapped.confidence

\* D1 brings the higher confidence, D2 the higher severity, and both beat P
C6_Witness ==
    /\ Len(absorbed) = 2
    /\ SeverityRank(primary.severity) = 1
    /\ SeverityRank(absorbed[1].severity) = 3
    /\ SeverityRank(absorbed[2].severity) = 4
    /\ absorbed[1].confidence > primary.confidence
    /\ absorbed[2].confidence = primary.confidence
    /\ merged.severity = "critical"
    /\ merged.confidence = absorbed[1].confidence

\* C7: merge(primary, duplicate) returns an alert whose severity is the
\* higher-ranked of the two severities and whose confidence is the larger of
\* the two confidences; neither is lower than the primary's.
C7_MergeTakesHigher ==
    Len(absorbed) = 1 =>
        /\ ({primary.severity, absorbed[1].severity} \subseteq Severities
              => merged.severity
                   = HigherSeverity(primary.severity, absorbed[1].severity))
        /\ merged.confidence >= primary.confidence
        /\ merged.confidence >= absorbed[1].confidence
        /\ merged.confidence \in {primary.confidence, absorbed[1].confidence}
        /\ SeverityRank(merged.severity) >= SeverityRank(primary.severity)

\* the duplicate outranks the primary but is less confident
C7_Witness ==
    /\ Len(absorbed) = 1
    /\ {primary.severity, absorbed[1].severity} \subseteq Severities
    /\ SeverityRank(absorbed[1].severity) > SeverityRank(primary.severity)
    /\ absorbed[1].confidence < primary.confidence
    /\ merged.severity = absorbed[1].severity
    /\ merged.confidence = primary.confidence

\* C11: in every result of process_alert whose priority is p1 the
\* escalation_level is manager, director or executive and
\* requires_escalation is true, whatever the SLA status; and in every result
\* requires_escalation is true exactly when escalation_level is not none.
C11_P1AlwaysEscalates ==
    Returned("process") =>
        /\ (result.priority = "p1" =>
                /\ result.escalation_level
                      \in {"manager", "director", "executive"}
                /\ result.requires_escalation)
        /\ result.requires_escalation = (result.escalation_level # "none")

\* a p1 alert processed with most of its four hours left is escalated to
\* the manager
C11_Witness ==
    /\ Returned("process")
    /\ result.priority = "p1"
    /\ result.sla_status = "warning"
    /\ result.time_remaining_hours >= 300
    /\ result.escalation_level = "manager"
    /\ result.requires_escalation

\* check_sla_breach returned for a p1 alert evaluated age hours after its
\* creation time
P1CheckedAtAge(age) ==
    /\ Returned("sla")
    /\ result.alert.priority = "p1"
    /\ IsNumber(result.alert.created_at)
    /\ result.t_check = result.alert.created_at + age

\* C12 as stated: a p1 alert created exactly 4 hours before the evaluation
\* time (time remaining exactly 0) has sla_status = breached.
C12_Original ==
    P1CheckedAtAge(4) => result.sla_status = "breached"

\* C12 amended: a p1 alert created exactly 4 hours before the evaluation
\* time has time remaining 0, sla_status = critical and breach_risk = high;
\* one hour later, its time remaining negative, it is breached.
C12_P1AtDeadlineIsCritical ==
    /\ P1CheckedAtAge(4) =>
          /\ result.time_remaining_hours = 0
          /\ result.sla_status = "critical"
          /\ result.breach_risk = "high"
    /\ P1CheckedAtAge(5) =>
          /\ result.time_remaining_hours = -100
          /\ result.sla_status = "breached"

\* a p1 alert checked at the very hour of its deadline
C12_Witness ==
    /\ P1CheckedAtAge(4)
    /\ result.sla_deadline = result.t_check
    /\ result.sla_status = "critical"

\* C13 as stated: a p1 alert created exactly 2 hours before the evaluation
\* time (time remaining exactly 2 hours) has sla_status = critical.
C13_Original ==
    P1CheckedAtAge(2) => result.sla_status = "critical"

\* C13 amended: a p1 alert created exactly 2 hours before the evaluation
\* time has time remaining 2 hours, sla_status = warning and breach_risk =
\* medium (critical begins strictly below 2 hours); one hour later, with 1
\* hour remaining, it is critical.
C13_P1TwoHoursLeftIsWarning ==
    /\ P1CheckedAtAge(2) =>
          /\ result.time_remaining_hours = 200
          /\ result.sla_status = "warning"
          /\ result.breach_risk = "medium"
    /\ P1CheckedAtAge(3) =>
          /\ result.time_remaining_hours = 100
          /\ result.sla_status = "critical"
          /\ result.breach_risk = "high"

\* a p1 alert checked with exactly two of its four hours left
C13_Witness ==
    /\ P1CheckedAtAge(2)
    /\ result.sla_deadline = result.t_check + 2
    /\ result.sla_status = "warning"

\* a probability that is missing, None or not a number replaced by 0.5
Neutral(v) == IF IsNumber(v) THEN v ELSE 50

WithNeutral(alert) ==
    [alert EXCEPT !.likelihood = Neutral(@), !.impact_score = Neutral(@),
                  !.confidence = Neutral(@)]

\* the tier of a score given in 1 / ScoreDen: >= 0.8 p1, >= 0.6 p2,
\* >= 0.4 p3, else p4
FormulaPriority(score) ==
    IF 10 * score >= 8 * ScoreDen THEN "p1"
    ELSE IF 10 * score >= 6 * ScoreDen THEN "p2"
    ELSE IF 10 * score >= 4 * ScoreDen THEN "p3"
    ELSE "p4"

\* C14: scoring never raises, and a missing, null or non-numeric likelihood,
\* impact or confidence is treated as 0.5 for that field only: the result is
\* the composite formula (rounded) with 0.5 in place of the bad field, and
\* the priority is the tier of that formula.
C14_BadFieldNeutral ==
    (/\ result.op = "score"
     /\ result.alert.severity \notin {AbsentKey, NoneKey}
     /\ IsNumber(result.alert.created_at)) =>
        LET formula == CompositeFormula(WithNeutral(result.alert),
                                        result.t_score)
        IN  /\ ~result.raised
            /\ 2 * Abs(result.composite_score * (ScoreDen \div 1000)
                       - formula) <= ScoreDen \div 1000
            /\ result.priority = FormulaPriority(formula)

\* an alert of a severity outside critical / high / medium / low, all its
\* other entries well-formed, was scored
UnknownSeverityScored ==
    /\ Returned("score")
    /\ result.alert.severity \notin Severities \cup {AbsentKey, NoneKey}
    /\ FormulaApplies(result.alert)

\* the results scoring can return for alert with its severity replaced
ScoresWithSeverity(severity) ==
    {calculate_alert_score([result.alert EXCEPT !.severity = severity],
                           result.t_score, half) : half \in HalfWays}

\* C15 as stated: scoring an alert of unrecognized severity does not fail
\* and its composite_score is never higher than that of the same alert with
\* severity low.
C15_Original ==
    UnknownSeverityScored =>
        /\ ~result.score_error
        /\ \A low \in ScoresWithSeverity("low") :
              result.composite_score <= low.composite_score

\* C15 amended: scoring an alert of unrecognized severity does not fail and
\* weighs the severity 0.5, as medium: composite_score and priority are
\* those of the same alert with severity medium, and the composite_score is
\* higher than that of the same alert with severity low.
C15_UnknownSeverityIsMedium ==
    UnknownSeverityScored =>
        /\ ~result.score_error
        /\ \E medium \in ScoresWithSeverity("medium") :
              /\ result.composite_score = medium.composite_score
              /\ result.priority = medium.priority
        /\ \A low \in ScoresWithSeverity("low") :
              result.composite_score > low.composite_score

\* the example alert with severity "bogus", scored at its creation hour:
\* 0.5 * 0.3 + 0.8 * 0.25 + 0.85 * 0.25 + 0.89 * 0.2 = 0.7405, p2
C15_Witness ==
    /\ UnknownSeverityScored
    /\ result.alert = [ExampleAlert EXCEPT !.severity = "bogus"]
    /\ result.t_score = 0
    /\ result.composite_score \in {740, 741}
    /\ result.priority = "p2"

\* v clamped to [0, 1]
Clamp(v) == IF v < 0 THEN 0 ELSE IF v > 100 THEN 100 ELSE v

Clamped(alert) ==
    [alert EXCEPT !.likelihood = Clamp(@), !.impact_score = Clamp(@),
                  !.confidence = Clamp(@)]

\* C16: confidence, impact and likelihood are clamped to [0, 1]: an alert
\* carrying a number below 0 or above 1 in one of them, scored no earlier
\* than its creation time, gets a composite_score within [0, 1] that equals
\* the score of the alert with the clamped fields.
C16_ScoreUsesClampedFields ==
    (/\ Returned("score")
     /\ FormulaApplies(result.alert)
     /\ result.alert.created_at <= result.t_score) =>
        /\ 0 <= result.composite_score
        /\ result.composite_score <= 1000
        /\ \E half \in HalfWays :
              result.composite_score =
                  calculate_alert_score(Clamped(result.alert),
                                        result.t_score, half).composite_score

\* the positions of the batch, counted from 0 as the code counts them
Positions == 0..(Len(dedup.alerts) - 1)

\* similarity(alerts[i], alerts[j]) at the hour of the clock
SimilarityAt(i, j) ==
    calculate_similarity(dedup.alerts[i + 1], dedup.alerts[j + 1], clock)

\* hours between the creation times of alerts[i] and alerts[j]
GapAt(i, j) ==
    Abs(Get(dedup.alerts[i + 1].created_at, clock)
        - Get(dedup.alerts[j + 1].created_at, clock))

SimilarityFormula(i, j) ==
    (IF dedup.alerts[i + 1].product_id = dedup.alerts[j + 1].product_id
     THEN 96 ELSE 0)
    + (IF dedup.alerts[i + 1].category = dedup.alerts[j + 1].category
       THEN 72 ELSE 0)
    + (IF dedup.alerts[i + 1].severity = dedup.alerts[j + 1].severity
       THEN 48 ELSE 0)
    + (IF GapAt(i, j) < 24 THEN 24 - GapAt(i, j) ELSE 0)

\* 1.0, which is a double
Identical == [n |-> 240, ulp |-> 0]

\* product, category, severity and creation time all coincide
Coincide(i, j) ==
    /\ dedup.alerts[i + 1].product_id = dedup.alerts[j + 1].product_id
    /\ dedup.alerts[i + 1].category = dedup.alerts[j + 1].category
    /\ dedup.alerts[i + 1].severity = dedup.alerts[j + 1].severity
    /\ GapAt(i, j) = 0

\* C18: similarity(a, b) is the weighted sum 0.4 / 0.3 / 0.2 of the matching
\* product, category and severity plus 0.1 * (1 - gap / 24) for a gap under
\* 24 hours; it lies in [0, 1] and is 1.0 exactly when product, category,
\* severity and creation time all coincide.
C18_SimilarityIsWeightedSum ==
    \A i \in Positions, j \in Positions :
        /\ SimilarityAt(i, j).n = SimilarityFormula(i, j)
        /\ SimilarityAt(i, j).n >= 0
        /\ \/ SimilarityAt(i, j).n < 240
           \/ SimilarityAt(i, j).n = 240 /\ SimilarityAt(i, j).ulp <= 0
        /\ (SimilarityAt(i, j) = Identical) = Coincide(i, j)

\* s >= threshold for a similarity s and the double nearest threshold / 240
AtLeast(s, threshold) == s.n > threshold \/ (s.n = threshold /\ s.ulp >= 0)

\* the pairs (i, j, s) with i < j and s = similarity(alerts[i], alerts[j])
\* >= the threshold of the call
ExpectedPairs ==
    {<<p[1], p[2], SimilarityAt(p[1], p[2])>> :
        p \in {q \in Positions \X Positions :
                 /\ q[1] < q[2]
                 /\ AtLeast(SimilarityAt(q[1], q[2]),
                            dedup.similarity_threshold)}}

\* the entries of the list find_duplicates returned
ReturnedPairs == {dedup.duplicates[k] : k \in 1..Len(dedup.duplicates)}

\* C19: find_duplicates(alerts, threshold) returns exactly the pairs
\* (i, j, s) with i < j and s = similarity(alerts[i], alerts[j]) >=
\* threshold: each such pair once, no other pair, no (i, i), no (j, i), and
\* nothing for two alerts merely linked through a third.
C19_ExactlyThePairsAtThreshold ==
    dedup.called =>
        /\ ReturnedPairs = ExpectedPairs
        /\ Len(dedup.duplicates) = Cardinality(ExpectedPairs)
        /\ \A k \in 1..Len(dedup.duplicates) :
              /\ dedup.duplicates[k][1] \in Positions
              /\ dedup.duplicates[k][2] \in Positions
              /\ dedup.duplicates[k][1] < dedup.duplicates[k][2]

\* three alerts created 0, 12 and 24 hours after hour 0, compared at 0.95:
\* the first and the second are linked, the second and the third are, the
\* first and the third are not
C19_Witness ==
    /\ dedup.called
    /\ dedup.similarity_threshold = 228
    /\ dedup.alerts = <<BaseAlert, [BaseAlert EXCEPT !.created_at = 12],
                        [BaseAlert EXCEPT !.created_at = 24]>>
    /\ dedup.duplicates = << <<0, 1, [n |-> 228, ulp |-> 0]>>,
                             <<1, 2, [n |-> 228, ulp |-> 0]>> >>

\* alerts[i] and alerts[j] have the same fingerprint
SameFingerprint(i, j) ==
    generate_alert_fingerprint(dedup.alerts[i + 1])
        = generate_alert_fingerprint(dedup.alerts[j + 1])

\* C20 as stated: two alerts with equal fingerprints but very different
\* creation times (a day or more apart) have a similarity below the default
\* threshold 0.8 and are not returned by find_duplicates.
C20_Original ==
    (dedup.called /\ dedup.similarity_threshold = DefaultThreshold) =>
        \A i \in Positions, j \in Positions :
            (i < j /\ SameFingerprint(i, j) /\ GapAt(i, j) >= 24) =>
                /\ ~AtLeast(SimilarityAt(i, j), DefaultThreshold)
                /\ <<i, j, SimilarityAt(i, j)>> \notin ReturnedPairs

\* C20 amended: two alerts with equal fingerprints have a similarity of
\* 0.9 or a rounding error less, whatever their creation times, and are
\* returned by find_duplicates at the default threshold 0.8; created a day
\* or more apart they are left out only at a threshold of 0.9 or more.
C20_SameFingerprintIsDuplicate ==
    dedup.called =>
        \A i \in Positions, j \in Positions :
            (i < j /\ SameFingerprint(i, j)) =>
                /\ SimilarityAt(i, j).n >= 216
                /\ dedup.similarity_threshold = DefaultThreshold =>
                      <<i, j, SimilarityAt(i, j)>> \in ReturnedPairs
                /\ (dedup.similarity_threshold >= 216 /\ GapAt(i, j) >= 24) =>
                      <<i, j, SimilarityAt(i, j)>> \notin ReturnedPairs

\* the base alert and its copy created 30 hours later, compared at 0.8
C20_Witness ==
    /\ dedup.called
    /\ dedup.similarity_threshold = DefaultThreshold
    /\ dedup.alerts = <<BaseAlert, [BaseAlert EXCEPT !.created_at = 30]>>
    /\ dedup.duplicates = << <<0, 1, [n |-> 216, ulp |-> -1]>> >>

\* the ids of the duplicates merged so far, in merge order
AbsorbedIds == [k \in 1..Len(absorbed) |-> absorbed[k].id]

\* C21: after merging D1, ..., Dn one after another into a primary P, each
\* merge taking the previous result as primary, the result's
\* merged_alert_ids is P's original list followed by the ids of D1, ..., Dn
\* in merge order; no id is lost.
C21_AbsorbedIdsAccumulate ==
    /\ merged.merged_alert_ids = primary.merged_alert_ids \o AbsorbedIds
    /\ Len(merged.merged_alert_ids)
          = Len(primary.merged_alert_ids) + Len(absorbed)

\* a primary that had absorbed alert 7 takes two more duplicates
C21_Witness ==
    /\ primary.merged_alert_ids = <<7>>
    /\ Len(absorbed) = 2
    /\ merged.merged_alert_ids = <<7, 1, 2>>

\* stock_health by ratio = current_stock / (reorder_point + 0.01): critical
\* under 0.5, warning under 1.0, healthy otherwise
StockHealthOf(current_stock, reorder_point) ==
    IF 200 * current_stock < 100 * reorder_point + 1 THEN "critical"
    ELSE IF 100 * current_stock < 100 * reorder_point + 1 THEN "warning"
    ELSE "healthy"

\* a product whose stock and reorder point are numbers, zero included
CountedProduct(product) ==
    /\ IsNumber(product.current_stock) /\ product.current_stock >= 0
    /\ IsNumber(product.reorder_point) /\ product.reorder_point >= 0

\* C22: for every product with current_stock >= 0 and reorder_point >= 0,
\* zero included, enrich_with_product_context sets stock_health from
\* current_stock / (reorder_point + 0.01): critical under 0.5, warning under
\* 1.0, healthy otherwise.
C22_StockHealthFromRatio ==
    (Returned("enrich_product") /\ CountedProduct(result.product)) =>
        result.stock_health
            = StockHealthOf(result.product.current_stock,
                            result.product.reorder_point)

\* the entries of the history that are of the alert's category, resolved,
\* and carry both timestamps
Qualifying ==
    {i \in 1..Len(result.history) :
        /\ result.history[i].category = result.alert.category
        /\ result.history[i].status = "resolved"
        /\ IsNumber(result.history[i].created_at)
        /\ IsNumber(result.history[i].resolved_at)}

RECURSIVE SumOver(_)
\* the sum of resolved_at - created_at over the entries at the positions I
SumOver(I) ==
    IF I = {} THEN 0
    ELSE LET i == CHOOSE k \in I : TRUE
         IN  (result.history[i].resolved_at - result.history[i].created_at)
             + SumOver(I \ {i})

\* C23: enrich_with_historical_context sets avg_resolution_hours to the
\* mean of resolved_at - created_at over exactly the history entries of the
\* alert's category that are resolved and carry both timestamps, and leaves
\* the field out when no entry qualifies.
C23_AverageOverOwnCategory ==
    Returned("enrich_history") =>
        IF Qualifying = {} THEN result.avg_resolution_hours = <<>>
        ELSE /\ result.avg_resolution_hours # <<>>
             /\ result.avg_resolution_hours[1] * Cardinality(Qualifying)
                   = SumOver(Qualifying) * result.avg_resolution_hours[2]

\* the group a recommendation belongs to: 1 tier, 2 category, 3 stock,
\* 4 recurrence
GroupOf(text) ==
    CASE text \in {"Immediate investigation required",
                   "Notify relevant stakeholders"} -> 1
      [] text \in {"Review recent quality inspection reports",
                   "Check batch/lot numbers for affected products",
                   "Contact supplier for status update",
                   "Identify alternative suppliers if needed",
                   "Adjust inventory orders",
                   "Review demand forecast models"} -> 2
      [] text = "Expedite reorder or switch to backup supplier" -> 3
      [] text = "Investigate root cause (recurring issue)" -> 4
      [] OTHER -> 0

\* the recommendations of a category, in their order
CategoryActions(category) ==
    CASE category = "quality" ->
            <<"Review recent quality inspection reports",
              "Check batch/lot numbers for affected products">>
      [] category = "supply" ->
            <<"Contact supplier for status update",
              "Identify alternative suppliers if needed">>
      [] category = "demand" ->
            <<"Adjust inventory orders", "Review demand forecast models">>
      [] OTHER -> <<>>

\* the recommendations of group g in a list of actions
GroupPart(actions, g) == SelectSeq(actions, LAMBDA text : GroupOf(text) = g)

\* C24: recommended_actions of a process_alert result is ordered in fixed
\* groups - tier (only for p1), then the alert's category, then stock (only
\* when stock_health is critical), then recurrence (only when is_recurring);
\* no recommendation of a later group precedes one of an earlier group, and
\* the list is determined by (priority, category, stock_health,
\* is_recurring).
C24_RecommendationsInFixedGroups ==
    Returned("process") =>
        LET actions == result.recommended_actions
        IN  /\ \A i \in 1..Len(actions), j \in 1..Len(actions) :
                  i < j => (/\ GroupOf(actions[i]) \in 1..4
                            /\ GroupOf(actions[i]) <= GroupOf(actions[j]))
            /\ GroupPart(actions, 1) =
                  (IF result.priority = "p1"
                   THEN <<"Immediate investigation required",
                          "Notify relevant stakeholders">>
                   ELSE <<>>)
            /\ GroupPart(actions, 2) = CategoryActions(result.category)
            /\ GroupPart(actions, 3) =
                  (IF result.stock_health = "critical"
                   THEN <<"Expedite reorder or switch to backup supplier">>
                   ELSE <<>>)
            /\ GroupPart(actions, 4) =
                  (IF result.is_recurring
                   THEN <<"Investigate root cause (recurring issue)">>
                   ELSE <<>>)
            /\ Len(actions) = Len(GroupPart(actions, 1))
                              + Len(GroupPart(actions, 2))
                              + Len(GroupPart(actions, 3))
                              + Len(GroupPart(actions, 4))

\* a recurring p1 quality alert on a product short of stock gets all four
\* groups
C24_Witness ==
    /\ Returned("process")
    /\ result.priority = "p1"
    /\ result.category = "quality"
    /\ result.stock_health = "critical"
    /\ result.is_recurring
    /\ result.recommended_actions =
          <<"Immediate investigation required",
            "Notify relevant stakeholders",
            "Review recent quality inspection reports",
            "Check batch/lot numbers for affected products",
            "Expedite reorder or switch to backup supplier",
            "Investigate root cause (recurring issue)">>

\* none < manager < director < executive
EscalationRank(level) ==
    CASE level = "none" -> 0
      [] level = "manager" -> 1
      [] level = "director" -> 2
      [] level = "executive" -> 3

\* the hours at which a later process_alert run on the alert of result can
\* score it, and the hours at which a run scoring at t_score can read the
\* clock for the escalation
LaterScoreReads == {t \in Instants : result.t_esc <= t}
LaterEscalationReads(t_score) ==
    {t \in Instants : t_score <= t /\ t <= t_score + MaxDrift}

\* priority and escalation_level a run of process_alert on the alert of
\* result reports when it reads the clock at t_score and t_esc (the
\* rounding of the score has no part in either)
LaterOutcome(t_score, t_esc) ==
    LET score_result == calculate_alert_score(result.alert, t_score, "up")
    IN  [priority |-> score_result.priority,
         escalation_level |->
             determine_escalation(Scored(result.alert, score_result), t_esc)]

\* a process_alert run without product and history whose SLA check read
\* the clock at the hour of the scoring: neither the product, the history
\* nor the hour of the SLA check has a part in priority or escalation_level
PlainRun ==
    /\ Returned("process")
    /\ ~result.product.given
    /\ result.history = <<>>
    /\ result.t_check = result.t_score

\* C25 as stated: re-processing the same unchanged alert at later
\* evaluation times never lowers its escalation level.
C25_Original ==
    PlainRun =>
        \A t_score \in LaterScoreReads :
            \A t_esc \in LaterEscalationReads(t_score) :
                EscalationRank(LaterOutcome(t_score, t_esc).escalation_level)
                    >= EscalationRank(result.escalation_level)

\* C25 amended: re-processing the same unchanged alert at later evaluation
\* times never lowers its escalation level as long as the later run reports
\* the same priority; a run in which the aged alert scores a less urgent
\* priority can report a lower level.
C25_NeverLoweredWithinTier ==
    PlainRun =>
        \A t_score \in LaterScoreReads :
            \A t_esc \in LaterEscalationReads(t_score) :
                LET later == LaterOutcome(t_score, t_esc)
                IN  later.priority = result.priority =>
                        EscalationRank(later.escalation_level)
                            >= EscalationRank(result.escalation_level)

\* a p1 alert escalated to the manager is still p1 and escalated to the
\* executive in a later run, and is p2 and not escalated in another
C25_Witness ==
    /\ PlainRun
    /\ result.priority = "p1"
    /\ result.escalation_level = "manager"
    /\ \E t \in LaterScoreReads :
          LaterOutcome(t, t) = [priority |-> "p1",
                                escalation_level |-> "executive"]
    /\ \E t \in LaterScoreReads :
          LaterOutcome(t, t) = [priority |-> "p2",
                                escalation_level |-> "none"]

\* the status of a time remaining given in hundredths of an hour
StatusOfReported(hundredths) ==
    IF hundredths < 0 THEN "breached"
    ELSE IF hundredths < 200 THEN "critical"
    ELSE IF hundredths < 1200 THEN "warning"
    ELSE "ok"

\* C26: within one process_alert run the reported fields are consistent
\* although each step reads the clock itself: escalation_level is the
\* transition-table value for the reported priority and the reported
\* sla_status / breach_risk, and sla_status is the classification of the
\* reported time_remaining_hours.
C26_ReportedFieldsConsistent ==
    Returned("process") =>
        /\ result.escalation_level
              = TransitionTable(result.priority, result.sla_status,
                                result.breach_risk)
        /\ result.sla_status = StatusOfReported(result.time_remaining_hours)

-----------------------------------------------------------------------------
(* Properties of re-scoring *)

\* the hours at or after the last scoring at which the same alert is scored
\* again
RescoreTimes == {t \in Instants : t >= result.t_score}

\* the age the alert is scored at, at hour t
AgeAt(alert, t) == t - Get(alert.created_at, t)

\* the alert's creation time is not after the hour it was scored at
CreatedBefore ==
    IsNumber(result.alert.created_at) =>
        result.alert.created_at <= result.t_score

\* C28: for an unchanged alert whose creation time is not after the
\* evaluation time, scoring it again later never returns a higher
\* composite_score nor a more urgent priority; time_sensitivity stays within
\* [0.5, 1], and from an age of 168 hours on it is exactly 0.5, so that
\* score and priority no longer change.  A later scoring at the same
\* time_sensitivity repeats the same arithmetic, so its rounding falls the
\* same way.
C28_RescoringNeverRaises ==
    (Returned("score") /\ ~result.score_error /\ CreatedBefore) =>
        \A t \in RescoreTimes, first_half \in HalfWays, half \in HalfWays :
            LET first == calculate_alert_score(result.alert, result.t_score,
                                               first_half)
                later == calculate_alert_score(result.alert, t, half)
            IN  (/\ first.composite_score = result.composite_score
                 /\ later.time_sensitivity = result.time_sensitivity
                        => half = first_half)
                =>  /\ later.composite_score <= result.composite_score
                    /\ Urgency(later.priority) <= Urgency(result.priority)
                    /\ 2 * later.time_sensitivity >= DecayHours
                    /\ later.time_sensitivity <= DecayHours
                    /\ AgeAt(result.alert, t) >= DecayHours
                          => 2 * later.time_sensitivity = DecayHours
                    /\ AgeAt(result.alert, result.t_score) >= DecayHours
                          => /\ later.composite_score = result.composite_score
                             /\ later.priority = result.priority

\* the probabilities an alert is documented to carry
InRange(alert) ==
    \A v \in {alert.confidence, alert.impact_score, alert.likelihood} :
        IsNumber(v) => (0 <= v /\ v <= 100)

\* the same statement over the alerts whose probabilities lie in [0, 1]
RescoringNeverRaisesInRange ==
    InRange(result.alert) => C28_RescoringNeverRaises

-----------------------------------------------------------------------------
(* Properties of the default threshold *)

\* find_duplicates was called with the default similarity_threshold
CalledAtDefault ==
    dedup.called /\ dedup.similarity_threshold = DefaultThreshold

\* the two alerts of the batch a returned entry points at
PairOf(entry) ==
    [first |-> dedup.alerts[entry[1] + 1],
     second |-> dedup.alerts[entry[2] + 1]]

\* C29: at the default threshold 0.8 every pair find_duplicates returns has
\* the same product and the same category, whatever the severities and
\* creation times of the two alerts.
C29_DuplicatesShareProductAndCategory ==
    CalledAtDefault =>
        \A k \in 1..Len(dedup.duplicates) :
            LET pair == PairOf(dedup.duplicates[k])
            IN  /\ pair.first.product_id = pair.second.product_id
                /\ pair.first.category = pair.second.category

\* a batch of three at the default threshold: one pair is returned, and the
\* batch also holds two alerts of one product, severity and creation time
\* whose categories differ: similarity 0.7, the most a pair of different
\* categories or products can have
C29_Witness ==
    /\ CalledAtDefault
    /\ Len(dedup.alerts) = 3
    /\ dedup.duplicates # <<>>
    /\ \E p \in Positions \X Positions :
          /\ p[1] < p[2]
          /\ SimilarityAt(p[1], p[2]).n = ProductMatch + SeverityMatch
                                          + ProximityHours
          /\ dedup.alerts[p[1] + 1].category
                # dedup.alerts[p[2] + 1].category

-----------------------------------------------------------------------------
(* Properties of the records passed in *)

\* the references a call was handed
PassedRefs == 1..Len(frame.passed)

\* C30: process_alert, merge_alerts, enrich_with_product_context and
\* enrich_with_historical_context leave their input records unchanged:
\* every record and list passed in (the alert, product and history, the
\* primary with its description and its list of absorbed ids, the
\* duplicate) has at the return the entries it had at the call, and the
\* result is a new record.
C30_InputsUnchanged ==
    ~FrameIdle =>
        /\ \A r \in PassedRefs : frame.heap[r] = frame.passed[r]
        /\ frame.returned \notin PassedRefs

\* a merge into a primary that already lists alert 7: the result has a
\* higher severity, a longer description and lists 7 and 1
C30_Witness ==
    /\ frame.op = "merge"
    /\ Len(frame.passed) = 3
    /\ frame.passed[3] = <<7>>
    /\ LET out == frame.heap[frame.returned]
       IN  /\ out.severity # frame.passed[1].severity
           /\ out.description # frame.passed[1].description
           /\ frame.heap[out.merged_alert_ids.ref] = <<7, 1>>

=========================================================================
